---- MODULE Spec2Model ----
(***************************************************************************)
(* Model of the recipe application (src/app.py): the users and recipes     *)
(* tables, the cookie session of each client, and the request handlers.    *)
(* A handler is cut into steps at the database statements whose result the *)
(* handler acts upon later (the existence check and the write), because    *)
(* the server runs requests of different clients concurrently and the      *)
(* store serialises single statements only.  Each client has at most one   *)
(* request in flight.  A request ends in the state "teardown", where its   *)
(* response is visible, and close_db then closes its connection and hands  *)
(* the response to the client.                                             *)
(***************************************************************************)
EXTENDS Integers, Sequences, FiniteSets, TLC

\* ---------------------------------------------------------------- bounds
MaxRecipes == 2       \* recipe ids ever generated
MaxClock == 1         \* ticks of CURRENT_TIMESTAMP

Sessions == {"s1", "s2"}                \* the clients (one cookie jar each)
NoUser == 0                             \* "user_id" not in session
None == [id |-> 0]                      \* the None of query_db(..., one=True)

\* strings are sequences of one-character strings
UsernameInputs == {<<>>, <<"a">>, <<" ", "a">>, <<"b">>}
PasswordInputs == {<<>>, <<"p">>, <<"q">>}      \* submitted at login
NewPasswords == {<<>>, <<"p">>}              \* submitted at registration
Salts == {"x"}
Methods == {"GET", "POST"}

EmptyForm ==
  [title |-> <<>>, description |-> <<>>, ingredients |-> <<>>,
   instructions |-> <<>>, prep_time |-> <<>>]
Forms ==
  { EmptyForm,
    [title |-> <<" ">>, description |-> <<"d">>, ingredients |-> <<>>,
     instructions |-> <<>>, prep_time |-> <<>>],
    [title |-> <<" ", "a">>, description |-> <<"d", " ">>, ingredients |-> <<>>,
     instructions |-> <<"i">>, prep_time |-> <<" ">>],
    [title |-> <<"b">>, description |-> <<>>, ingredients |-> <<"g">>,
     instructions |-> <<>>, prep_time |-> <<"5">>] }

VARIABLES
  users,      \* table users: set of rows [id, username, password_hash]
  recipes,    \* table recipes: set of rows
  seq,        \* sqlite_sequence of recipes: the largest recipe id ever generated
  now,        \* CURRENT_TIMESTAMP
  session,    \* session[s]: the user id in the session of client s, or NoUser
  pc,         \* pc[s]: where the request of client s stands
  local,      \* local[s]: the handler's local variables across its steps
  conn,       \* conn[s]: the connections the request of s has open
  resp        \* resp[s]: the response of the request, visible in "teardown"

vars == <<users, recipes, seq, now, session, pc, local, conn, resp>>

\* ------------------------------------------------------- pure functions
IsSpace(c) == c = " "

RECURSIVE lstrip(_)
lstrip(str) ==
  IF str # <<>> /\ IsSpace(Head(str)) THEN lstrip(Tail(str)) ELSE str

RECURSIVE rstrip(_)
rstrip(str) ==
  IF str # <<>> /\ IsSpace(str[Len(str)])
  THEN rstrip(SubSeq(str, 1, Len(str) - 1)) ELSE str

strip(str) == rstrip(lstrip(str))

\* werkzeug: the stored hash carries its salt; the digest depends on both
generate_password_hash(password, salt) ==
  [salt |-> salt, digest |-> <<salt, password>>]

check_password_hash(pwhash, password) ==
  pwhash.digest = <<pwhash.salt, password>>

\* ------------------------------------------------------------- queries

\* query_db(..., one=True): the first row, or None
OneOf(rows) == IF rows = {} THEN None ELSE CHOOSE r \in rows : TRUE

\* the lookup compares nothing and finds nothing
UserByName_blind(username) == None

UserByName(username) == OneOf({u \in users : u.username = username})

\* the lookup without its WHERE clause
UserById_any(id) == OneOf(users)

UserById(id) == OneOf({u \in users : u.id = id})

RecipeById(id) == OneOf({r \in recipes : r.id = id})

\* current_user(): the {id, username} of the session's user, or None
current_user(s) ==
  IF session[s] # NoUser
  THEN LET u == UserById(session[s]) IN
       IF u = None THEN None ELSE [id |-> u.id, username |-> u.username]
  ELSE None

\* the join made on the wrong column: ON r.id = u.id
Joined_misjoined ==
  { [id |-> r.id, user_id |-> r.user_id, title |-> r.title,
     description |-> r.description, ingredients |-> r.ingredients,
     instructions |-> r.instructions, prep_time |-> r.prep_time,
     created_at |-> r.created_at, username |-> u.username] :
    <<r, u>> \in {p \in recipes \X users : p[1].id = p[2].id} }

\* SELECT r.*, u.username FROM recipes r JOIN users u ON r.user_id=u.id
Joined ==
  { [id |-> r.id, user_id |-> r.user_id, title |-> r.title,
     description |-> r.description, ingredients |-> r.ingredients,
     instructions |-> r.instructions, prep_time |-> r.prep_time,
     created_at |-> r.created_at, username |-> u.username] :
    <<r, u>> \in {p \in recipes \X users : p[1].user_id = p[2].id} }

Detail(id) == OneOf({j \in Joined : j.id = id})

\* ... ORDER BY created_at DESC: the order of rows of equal created_at is
\* not determined by the statement
IsListing(rows) ==
  /\ \A i, j \in 1..Len(rows) : i < j => rows[i].created_at >= rows[j].created_at
  /\ \A i, j \in 1..Len(rows) : i # j => rows[i] # rows[j]

Listings ==
  { rows \in [1..Cardinality(Joined) -> Joined] : IsListing(rows) }

\* ----------------------------------------------------------- responses
NoLocal == [op |-> "none"]
NoResp == [outcome |-> "none"]

\* flash(msg) and redirect(url_for(target)); steps are the statements run
Redirect(outcome, msg, target, steps) ==
  [outcome |-> outcome, msg |-> msg, redirect |-> target, steps |-> steps,
   body |-> <<>>]

\* render_template(template, ...)
Render(template, steps, body) ==
  [outcome |-> "render", msg |-> "", redirect |-> "", steps |-> steps,
   body |-> <<template, body>>]

\* an exception nobody catches: the server answers 500
ServerError(steps) ==
  [outcome |-> "ServerError", msg |-> "", redirect |-> "", steps |-> steps,
   body |-> <<>>]

\* a connection opened at every access, the handle of g unused
get_db_uncached(c) == c + 1

\* get_db: the open connections of the request after an access, c before
\* it; the connection kept in g is reused, none is opened beside it
get_db(c) == IF c = 0 THEN 1 ELSE c

\* n statements run by query_db and execute_db, each through get_db
RECURSIVE Accesses(_, _)
Accesses(c, n) == IF n = 0 THEN c ELSE Accesses(get_db(c), n - 1)

\* the handler returns after n more statements: the response is built,
\* teardown is still to run
Return(s, response, n) ==
  /\ pc' = [pc EXCEPT ![s] = "teardown"]
  /\ resp' = [resp EXCEPT ![s] = response]
  /\ conn' = [conn EXCEPT ![s] = Accesses(conn[s], n)]
  /\ local' = [local EXCEPT ![s] = NoLocal]

\* the handler, after n statements, goes on to its write statement
Continue(s, label, locals, n) ==
  /\ pc' = [pc EXCEPT ![s] = label]
  /\ local' = [local EXCEPT ![s] = locals]
  /\ conn' = [conn EXCEPT ![s] = Accesses(conn[s], n)]
  /\ UNCHANGED resp

\* A request that has returned is torn down before any other step is taken:
\* close_db touches nothing but the connection of its own request, so the
\* order of a teardown and the steps of other requests makes no difference.
Quiet == \A t \in Sessions : pc[t] # "teardown"

\* the request of client s stands at label and may take its next step
At(s, label) == pc[s] = label /\ Quiet

Init ==
  /\ users = {}
  /\ recipes = {}
  /\ seq = 0
  /\ now = 0
  /\ session = [s \in Sessions |-> NoUser]
  /\ pc = [s \in Sessions |-> "idle"]
  /\ local = [s \in Sessions |-> NoLocal]
  /\ conn = [s \in Sessions |-> 0]
  /\ resp = [s \in Sessions |-> NoResp]

\* ------------------------------------------------------------ teardown
\* close_db: closes the connection kept in g, if there is one
close_db(s) ==
  /\ pc[s] = "teardown"
  /\ conn' = [conn EXCEPT ![s] = IF @ > 0 THEN @ - 1 ELSE 0]
  /\ pc' = [pc EXCEPT ![s] = "idle"]
  /\ resp' = [resp EXCEPT ![s] = NoResp]
  /\ UNCHANGED <<users, recipes, seq, now, session, local>>

\* the clock of the store advances
Tick ==
  /\ Quiet
  /\ now < MaxClock
  /\ now' = now + 1
  /\ UNCHANGED <<users, recipes, seq, session, pc, local, conn, resp>>

\* ---------------------------------------------------------------- auth
\* the gate left off the handlers
LoggedIn_ungated(s) == TRUE

\* login_required: the wrapped handler runs only with a user id in session
LoggedIn(s) == session[s] # NoUser

LoginRedirect ==
  Redirect("LoginRedirect", "Please log in to access that page.", "login", <<>>)

\* register, up to the existence check
register(s, method, username_in, password) ==
  /\ At(s, "idle")
  /\ UNCHANGED <<users, recipes, seq, now, session>>
  /\ IF method = "GET"
     THEN Return(s, Render("register.html", <<>>, <<>>), 0)
     ELSE LET username == strip(username_in) IN
          IF username = <<>> \/ password = <<>>
          THEN Return(s, Redirect("ValidationError",
                 "Please enter both username and password.", "register", <<>>),
                 0)
          ELSE IF UserByName(username) # None
          THEN Return(s, Redirect("ConflictError", "Username already taken.",
                 "register", <<"SELECT users">>), 1)
          ELSE Continue(s, "register_insert",
                 [op |-> "register", username |-> username,
                  password |-> password], 1)

\* INSERT INTO users: username is UNIQUE, id is AUTOINCREMENT
UniqueUsername(username) == \A u \in users : u.username # username

NextUserId == IF users = {} THEN 1
              ELSE (CHOOSE i \in {u.id : u \in users} :
                      \A u \in users : u.id <= i) + 1

\* register, the insert and what follows it
register_insert(s, salt) ==
  /\ At(s, "register_insert")
  /\ UNCHANGED <<recipes, seq, now>>
  /\ LET username == local[s].username
         pw_hash == generate_password_hash(local[s].password, salt)
         user_id == NextUserId
     IN IF UniqueUsername(username)
        THEN /\ users' = users \cup {[id |-> user_id, username |-> username,
                                      password_hash |-> pw_hash]}
             /\ session' = [session EXCEPT ![s] = user_id]
             /\ Return(s, Redirect("ok",
                  "Registration successful. You're logged in.", "home",
                  <<"SELECT users", "INSERT users">>), 1)
        ELSE \* sqlite3.IntegrityError leaves execute_db and the handler
             /\ UNCHANGED <<users, session>>
             /\ Return(s, ServerError(<<"SELECT users", "INSERT users">>), 1)

\* the password left unverified
LoginRefused_unverified(user, password) == user = None

\* the condition of the refusal in login; "or" does not evaluate its right
\* operand when the left one holds
LoginRefused(user, password) ==
  user = None \/ ~check_password_hash(user.password_hash, password)

LoginSteps(user) ==
  IF user = None THEN <<"SELECT users">>
  ELSE <<"SELECT users", "check_password_hash">>

\* the refusal names its cause
InvalidLogin_leaky(steps) ==
  Redirect("AuthError",
           IF Len(steps) = 1 THEN "Unknown username." ELSE "Wrong password.",
           "login", steps)

InvalidLogin(steps) ==
  Redirect("AuthError", "Invalid username or password.", "login", steps)

\* a refused login ends the session it was submitted in
SessionAfterLogin_dropped(s, user, password) ==
  IF LoginRefused(user, password) THEN [session EXCEPT ![s] = NoUser]
  ELSE [session EXCEPT ![s] = user.id]

\* the session after login: written on success only
SessionAfterLogin(s, user, password) ==
  IF LoginRefused(user, password) THEN session
  ELSE [session EXCEPT ![s] = user.id]

\* what login answers once the user row is queried
LoginResponse(user, password) ==
  IF LoginRefused(user, password)
  THEN InvalidLogin(LoginSteps(user))
  ELSE Redirect("ok", "Logged in successfully.", "home", LoginSteps(user))

login(s, method, username_in, password) ==
  /\ At(s, "idle")
  /\ UNCHANGED <<users, recipes, seq, now>>
  /\ IF method = "GET"
     THEN /\ UNCHANGED session
          /\ Return(s, Render("login.html", <<>>, <<>>), 0)
     ELSE LET username == strip(username_in)
              user == UserByName(username)
          IN /\ session' = SessionAfterLogin(s, user, password)
             /\ Return(s, LoginResponse(user, password), 1)

\* the session left as it was
Cleared_kept(s) == session

\* session.clear()
Cleared(s) == [session EXCEPT ![s] = NoUser]

logout(s) ==
  /\ At(s, "idle")
  /\ session' = Cleared(s)
  /\ UNCHANGED <<users, recipes, seq, now>>
  /\ Return(s, Redirect("ok", "You have been logged out.", "home", <<>>), 0)

\* ------------------------------------------------------------- recipes
\* request.form.get(field, "").strip() of the five fields
StripForm(form) ==
  [title |-> strip(form.title), description |-> strip(form.description),
   ingredients |-> strip(form.ingredients),
   instructions |-> strip(form.instructions),
   prep_time |-> strip(form.prep_time)]

\* the title left unvalidated
TitleMissing_unchecked(title) == FALSE

\* "if not title"
TitleMissing(title) == title = <<>>

\* an id column without AUTOINCREMENT: one more than the largest id in use
NextRecipeId_reused ==
  IF recipes = {} THEN 1
  ELSE (CHOOSE i \in {r.id : r \in recipes} : \A r \in recipes : r.id <= i) + 1

\* id INTEGER PRIMARY KEY AUTOINCREMENT: one more than the largest id ever
\* generated, whether or not its row still exists
NextRecipeId == seq + 1

\* the owner column filled from the wrong value
NewRecipe_misowned(id, user_id, f) ==
  [id |-> id, user_id |-> user_id + 1, title |-> f.title,
   description |-> f.description, ingredients |-> f.ingredients,
   instructions |-> f.instructions, prep_time |-> f.prep_time,
   created_at |-> now]

\* INSERT INTO recipes (user_id, title, ...): id and created_at by the store
NewRecipe(id, user_id, f) ==
  [id |-> id, user_id |-> user_id, title |-> f.title,
   description |-> f.description, ingredients |-> f.ingredients,
   instructions |-> f.instructions, prep_time |-> f.prep_time,
   created_at |-> now]

\* a merge that keeps the stored value of a field submitted empty
UpdatedRecipe_merged(r, f) ==
  [r EXCEPT !.title = f.title,
            !.description = IF f.description = <<>> THEN @ ELSE f.description,
            !.ingredients = IF f.ingredients = <<>> THEN @ ELSE f.ingredients,
            !.instructions = IF f.instructions = <<>> THEN @ ELSE f.instructions,
            !.prep_time = IF f.prep_time = <<>> THEN @ ELSE f.prep_time]

\* UPDATE recipes SET title = ?, ... WHERE id = ?
UpdatedRecipe(r, f) ==
  [r EXCEPT !.title = f.title, !.description = f.description,
            !.ingredients = f.ingredients, !.instructions = f.instructions,
            !.prep_time = f.prep_time]

\* an UPDATE that sets the title only
UpdateRecipes_titleonly(id, f) ==
  {IF r.id = id THEN [r EXCEPT !.title = f.title] ELSE r : r \in recipes}

UpdateRecipes(id, f) ==
  {IF r.id = id THEN UpdatedRecipe(r, f) ELSE r : r \in recipes}

\* DELETE FROM recipes WHERE id = ?
DeleteRecipes(id) == {r \in recipes : r.id # id}

\* the ownership check left out
NotOwner_unchecked(recipe, s) == FALSE

\* "recipe["user_id"] != session["user_id"]"
NotOwner(recipe, s) == recipe.user_id # session[s]

home(s) ==
  /\ At(s, "idle")
  /\ UNCHANGED <<users, recipes, seq, now, session>>
  /\ \E rows \in Listings :
       Return(s, Render("index.html",
                IF LoggedIn(s) THEN <<"SELECT users", "SELECT recipes">>
                ELSE <<"SELECT recipes">>, rows), IF LoggedIn(s) THEN 2 ELSE 1)

recipes_list(s) ==
  /\ At(s, "idle")
  /\ UNCHANGED <<users, recipes, seq, now, session>>
  /\ \E rows \in Listings :
       Return(s, Render("recipes_list.html",
                IF LoggedIn(s) THEN <<"SELECT users", "SELECT recipes">>
                ELSE <<"SELECT recipes">>, rows), IF LoggedIn(s) THEN 2 ELSE 1)

recipe_new(s, method, form) ==
  /\ At(s, "idle")
  /\ UNCHANGED <<users, now, session>>
  /\ IF ~LoggedIn(s)
     THEN /\ UNCHANGED <<recipes, seq>>
          /\ Return(s, LoginRedirect, 0)
     ELSE IF method = "GET"
     THEN /\ UNCHANGED <<recipes, seq>>
          /\ Return(s, Render("recipe_form.html", <<"SELECT users">>, <<>>), 1)
     ELSE LET f == StripForm(form) IN
          IF TitleMissing(f.title)
          THEN /\ UNCHANGED <<recipes, seq>>
               /\ Return(s, Redirect("ValidationError", "Title is required.",
                    "recipe_new", <<"SELECT users">>), 1)
          ELSE /\ seq < MaxRecipes
               /\ seq' = NextRecipeId
               /\ recipes' = recipes \cup {NewRecipe(NextRecipeId, session[s], f)}
               /\ Return(s, Redirect("ok", "Recipe created.", "recipes_list",
                    <<"SELECT users", "INSERT recipes">>), 2)

recipe_detail(s, recipe_id) ==
  /\ At(s, "idle")
  /\ UNCHANGED <<users, recipes, seq, now, session>>
  /\ LET steps == IF LoggedIn(s) THEN <<"SELECT users", "SELECT recipes">>
                  ELSE <<"SELECT recipes">>
         recipe == Detail(recipe_id)
     IN IF recipe = None
        THEN Return(s, Redirect("NotFound", "Recipe not found.", "recipes_list",
               steps), Len(steps))
        ELSE Return(s, Render("recipe_detail.html", steps, recipe), Len(steps))

\* recipe_edit, up to the checks that precede the UPDATE
recipe_edit(s, method, recipe_id, form) ==
  /\ At(s, "idle")
  /\ UNCHANGED <<users, recipes, seq, now, session>>
  /\ IF ~LoggedIn(s)
     THEN Return(s, LoginRedirect, 0)
     ELSE LET recipe == RecipeById(recipe_id)
              steps == <<"SELECT users", "SELECT recipes">>
              f == StripForm(form)
          IN IF recipe = None
             THEN Return(s, Redirect("NotFound", "Recipe not found.",
                    "recipes_list", steps), 2)
             ELSE IF NotOwner(recipe, s)
             THEN Return(s, Redirect("Forbidden",
                    "You are not allowed to edit this recipe.", "recipes_list",
                    steps), 2)
             ELSE IF method = "GET"
             THEN Return(s, Render("recipe_form.html", steps, recipe), 2)
             ELSE IF TitleMissing(f.title)
             THEN Return(s, Redirect("ValidationError", "Title is required.",
                    "recipe_edit", steps), 2)
             ELSE Continue(s, "recipe_edit_update",
                    [op |-> "recipe_edit", recipe_id |-> recipe_id, form |-> f], 2)

\* recipe_edit, the UPDATE and what follows it; an UPDATE that matches no
\* row changes nothing and raises nothing
recipe_edit_update(s) ==
  /\ At(s, "recipe_edit_update")
  /\ UNCHANGED <<users, seq, now, session>>
  /\ recipes' = UpdateRecipes(local[s].recipe_id, local[s].form)
  /\ Return(s, Redirect("ok", "Recipe updated.", "recipe_detail",
       <<"SELECT users", "SELECT recipes", "UPDATE recipes">>), 1)

\* recipe_delete, up to the checks that precede the DELETE
recipe_delete(s, recipe_id) ==
  /\ At(s, "idle")
  /\ UNCHANGED <<users, recipes, seq, now, session>>
  /\ IF ~LoggedIn(s)
     THEN Return(s, LoginRedirect, 0)
     ELSE LET recipe == RecipeById(recipe_id)
              steps == <<"SELECT recipes">>
          IN IF recipe = None
             THEN Return(s, Redirect("NotFound", "Recipe not found.",
                    "recipes_list", steps), 1)
             ELSE IF NotOwner(recipe, s)
             THEN Return(s, Redirect("Forbidden",
                    "You are not allowed to delete this recipe.",
                    "recipes_list", steps), 1)
             ELSE Continue(s, "recipe_delete_delete",
                    [op |-> "recipe_delete", recipe_id |-> recipe_id], 1)

\* recipe_delete, the DELETE and what follows it
recipe_delete_delete(s) ==
  /\ At(s, "recipe_delete_delete")
  /\ UNCHANGED <<users, seq, now, session>>
  /\ recipes' = DeleteRecipes(local[s].recipe_id)
  /\ Return(s, Redirect("ok", "Recipe deleted.", "recipes_list",
       <<"SELECT recipes", "DELETE recipes">>), 1)

\* --------------------------------------------------------------- system
RecipeIds == 1..MaxRecipes

\* a GET carries no form
UsernamesOf(m) == IF m = "GET" THEN {<<>>} ELSE UsernameInputs
PasswordsOf(m) == IF m = "GET" THEN {<<>>} ELSE PasswordInputs
NewPasswordsOf(m) == IF m = "GET" THEN {<<>>} ELSE NewPasswords
FormsOf(m) == IF m = "GET" THEN {EmptyForm} ELSE Forms

Next ==
  \/ Tick
  \/ \E s \in Sessions : close_db(s)
  \/ \E s \in Sessions, m \in Methods :
       \E u \in UsernamesOf(m), p \in NewPasswordsOf(m) : register(s, m, u, p)
  \/ \E s \in Sessions, salt \in Salts : register_insert(s, salt)
  \/ \E s \in Sessions, m \in Methods :
       \E u \in UsernamesOf(m), p \in PasswordsOf(m) : login(s, m, u, p)
  \/ \E s \in Sessions : logout(s)
  \/ \E s \in Sessions : home(s)
  \/ \E s \in Sessions : recipes_list(s)
  \/ \E s \in Sessions, m \in Methods :
       \E f \in FormsOf(m) : recipe_new(s, m, f)
  \/ \E s \in Sessions, id \in RecipeIds : recipe_detail(s, id)
  \/ \E s \in Sessions, m \in Methods, id \in RecipeIds :
       \E f \in FormsOf(m) : recipe_edit(s, m, id, f)
  \/ \E s \in Sessions : recipe_edit_update(s)
  \/ \E s \in Sessions, id \in RecipeIds : recipe_delete(s, id)
  \/ \E s \in Sessions : recipe_delete_delete(s)

Spec == Init /\ [][Next]_vars

\* ================================================================ claims
\* the client whose request takes the step
Acts(s) == pc'[s] # pc[s]

\* C1: a recipe row is changed or removed only by a step of a request whose
\* session user id is the row's user_id; recipe_edit and recipe_delete of a
\* logged-in client that is not the owner of the existing recipe answer
\* Forbidden and leave the recipes table as it is.
C1_OwnerOnly ==
  [][ /\ \A r \in recipes :
           r \notin recipes' =>
             \E s \in Sessions : Acts(s) /\ session[s] = r.user_id
      /\ \A s \in Sessions, id \in RecipeIds, m \in Methods, f \in Forms :
           ( /\ Acts(s)
             /\ session[s] # NoUser
             /\ \E r \in recipes : r.id = id /\ r.user_id # session[s]
             /\ (recipe_edit(s, m, id, f) \/ recipe_delete(s, id)) )
           => /\ pc'[s] = "teardown"
              /\ resp'[s].outcome = "Forbidden"
              /\ recipes' = recipes
    ]_vars

C1_Witness ==
  \E s \in Sessions :
    /\ pc[s] = "teardown"
    /\ resp[s].outcome = "Forbidden"
    /\ \E r \in recipes : r.user_id # session[s]

\* C2: recipe_new, recipe_edit and recipe_delete of a client whose session
\* holds no user id run no statement, open no connection, leave both tables
\* as they are and answer with the redirect to login.
C2_GateRefuses ==
  [][ \A s \in Sessions, id \in RecipeIds, m \in Methods, f \in Forms :
        ( /\ Acts(s)
          /\ session[s] = NoUser
          /\ (recipe_new(s, m, f) \/ recipe_edit(s, m, id, f)
                \/ recipe_delete(s, id)) )
        => /\ pc'[s] = "teardown"
           /\ resp'[s].redirect = "login"
           /\ resp'[s].steps = <<>>
           /\ conn'[s] = 0
           /\ users' = users /\ recipes' = recipes /\ seq' = seq
    ]_vars

C2_Witness ==
  \E s \in Sessions :
    /\ pc[s] = "teardown"
    /\ session[s] = NoUser
    /\ resp[s].outcome = "LoginRedirect"
    /\ recipes # {}

\* C3: a session's user id is set only by a login that found the row of the
\* submitted username and verified the submitted password against its hash
\* (to that row's id), or by the insert of register (to the id of the row
\* just inserted for the submitted username); every other change of a
\* session clears it.
C3_SessionIsCredentialed ==
  [][ \A s \in Sessions :
        /\ \A u \in UsernameInputs, p \in PasswordInputs :
             (resp'[s].outcome = "ok" /\ login(s, "POST", u, p))
             => \E row \in users :
                  /\ row.username = strip(u)
                  /\ check_password_hash(row.password_hash, p)
                  /\ session'[s] = row.id
        /\ (pc[s] = "register_insert" /\ resp'[s].outcome = "ok")
             => \E row \in users' \ users :
                  /\ row.username = local[s].username
                  /\ session'[s] = row.id
        /\ (session'[s] # session[s] /\ session'[s] # NoUser)
             => \/ pc[s] = "register_insert"
                \/ \E u \in UsernameInputs, p \in PasswordInputs :
                     login(s, "POST", u, p)
    ]_vars

C3_Witness ==
  \E s, t \in Sessions :
    /\ s # t
    /\ pc[s] = "teardown" /\ resp[s].msg = "Logged in successfully."
    /\ session[s] # NoUser /\ session[t] # NoUser /\ session[t] # session[s]

\* C4: a register POST with a non-empty username and password that arrives
\* when a row with the (stripped) username exists answers ConflictError and
\* inserts nothing; exactly one row with that username exists afterwards.
C4_DuplicateRefused ==
  [][ \A s \in Sessions, u \in UsernameInputs, p \in NewPasswords :
        ( /\ Acts(s)
          /\ p # <<>>
          /\ \E row \in users : row.username = strip(u)
          /\ register(s, "POST", u, p) )
        => /\ pc'[s] = "teardown"
           /\ resp'[s].outcome = "ConflictError"
           /\ users' = users
           /\ Cardinality({row \in users' : row.username = strip(u)}) = 1
    ]_vars

C4_Witness ==
  \E s \in Sessions :
    /\ pc[s] = "teardown"
    /\ resp[s].outcome = "ConflictError"
    /\ Cardinality(users) = 1

\* C5: at most one row per username ever exists, and a register request
\* that reached its insert either inserted its row or answers ConflictError.
C5_RaceHandled ==
  /\ \A u, v \in users : u.username = v.username => u = v
  /\ \A s \in Sessions :
       ( /\ pc[s] = "teardown"
         /\ resp[s].steps = <<"SELECT users", "INSERT users">> )
       => resp[s].outcome \in {"ok", "ConflictError"}

Observable(response) == <<response.outcome, response.msg, response.redirect>>

\* C6: in every state of the store, the answer of login to a username
\* without a row and its answer to the username of a row with a password
\* that does not verify carry the same outcome, message and redirect, and a
\* refused login leaves the session as it was.
C6_SameRefusal ==
  /\ [](\A u1 \in UsernameInputs :
          (\A row \in users : row.username # strip(u1))
          => \A u2 \in UsernameInputs, p2 \in PasswordInputs :
               (\E row \in users :
                  /\ row.username = strip(u2)
                  /\ ~check_password_hash(row.password_hash, p2))
               => \A p1 \in PasswordInputs :
                    Observable(LoginResponse(UserByName(strip(u1)), p1))
                      = Observable(LoginResponse(UserByName(strip(u2)), p2)))
  /\ [][ \A s \in Sessions :
           (Acts(s) /\ resp'[s].outcome = "AuthError")
           => /\ session' = session
              /\ \E u \in UsernameInputs, p \in PasswordInputs :
                   /\ login(s, "POST", u, p)
                   /\ resp'[s] = LoginResponse(UserByName(strip(u)), p)
        ]_vars

\* a login with a wrong password was refused while another username has no row
C6_Witness ==
  \E s \in Sessions :
    /\ pc[s] = "teardown"
    /\ resp[s].outcome = "AuthError"
    /\ resp[s].steps = <<"SELECT users", "check_password_hash">>
    /\ Cardinality(users) = 1
    /\ session[s] # NoUser

\* C7: every refused login has run the comparison of the password hash.
C7_HashAlwaysCompared ==
  \A s \in Sessions :
    (pc[s] = "teardown" /\ resp[s].outcome = "AuthError")
    => resp[s].steps = <<"SELECT users", "check_password_hash">>

BlankTitle(f) == strip(f.title) = <<>>

\* C8: the title of every recipe row is non-empty and carries no outer
\* whitespace; a recipe_new or recipe_edit POST whose title is empty after
\* stripping never changes the recipes table, and answers ValidationError
\* whenever it passes the checks before the validation (a logged-in client;
\* for recipe_edit, an existing recipe of that client).
C8_TitleRequired ==
  /\ [](\A r \in recipes : r.title # <<>> /\ strip(r.title) = r.title)
  /\ [][ \A s \in Sessions, f \in Forms :
           (Acts(s) /\ BlankTitle(f))
           => /\ recipe_new(s, "POST", f)
                 => /\ recipes' = recipes /\ seq' = seq
                    /\ session[s] # NoUser
                         => resp'[s].outcome = "ValidationError"
              /\ \A id \in RecipeIds :
                   recipe_edit(s, "POST", id, f)
                   => /\ recipes' = recipes
                      /\ pc'[s] = "teardown"
                      /\ (\E r \in recipes :
                            r.id = id /\ r.user_id = session[s])
                           => resp'[s].outcome = "ValidationError"
        ]_vars

C8_Witness ==
  \E s \in Sessions :
    /\ pc[s] = "teardown"
    /\ resp[s].outcome = "ValidationError"
    /\ resp[s].redirect = "recipe_edit"
    /\ recipes # {}

\* C9: the user_id of every recipe row is the id of a user row.
C9_OwnerExists ==
  \A r \in recipes : \E u \in users : u.id = r.user_id

C9_Witness ==
  /\ Cardinality(users) = 2
  /\ \E r1, r2 \in recipes : r1.user_id # r2.user_id

\* C10: recipe_new that succeeds for a client logged in as user c makes
\* Detail of the generated id a row with c's id as user_id and c's username
\* as username, and while Detail of an id returns a row, its user_id and
\* username stay what they were.
C10_DetailShowsCreator ==
  [][ /\ \A s \in Sessions, f \in Forms :
           (Acts(s) /\ recipe_new(s, "POST", f) /\ resp'[s].outcome = "ok")
           => \E c \in users, new \in RecipeIds :
                /\ c.id = session[s]
                /\ new = seq'
                /\ new \notin {r.id : r \in recipes}
                /\ Detail(new)' # None
                /\ Detail(new)'.user_id = c.id
                /\ Detail(new)'.username = c.username
      /\ \A id \in RecipeIds :
           (Detail(id) # None /\ Detail(id)' # None)
           => /\ Detail(id)'.user_id = Detail(id).user_id
              /\ Detail(id)'.username = Detail(id).username
    ]_vars

C10_Witness ==
  \E s \in Sessions :
    /\ pc[s] = "teardown"
    /\ resp[s].outcome = "render"
    /\ resp[s].body[1] = "recipe_detail.html"
    /\ resp[s].body[2] = Detail(resp[s].body[2].id)
    /\ resp[s].body[2].user_id # session[s]
    /\ resp[s].body[2].title # <<"a">>

\* C11: a recipe id that was generated and has no row never has a row
\* again: Detail of it stays None (recipe_detail answers NotFound) whatever
\* follows, and recipe_new never generates an id generated before.
C11_DeletedIsTerminal ==
  [][ /\ \A id \in RecipeIds :
           (id <= seq /\ \A r \in recipes : r.id # id)
           => /\ \A r \in recipes' : r.id # id
              /\ Detail(id)' = None
              /\ \A s \in Sessions :
                   (Acts(s) /\ recipe_detail(s, id))
                   => resp'[s].outcome = "NotFound"
      /\ \A r \in recipes' \ recipes :
           (\A q \in recipes : q.id # r.id) => r.id > seq
    ]_vars

\* after the delete of recipe 1 and a later create, detail(1) is NotFound
C11_Witness ==
  \E s \in Sessions :
    /\ pc[s] = "teardown"
    /\ resp[s].outcome = "NotFound"
    /\ resp[s].steps[Len(resp[s].steps)] = "SELECT recipes"
    /\ seq = 2
    /\ {r.id : r \in recipes} = {2}

\* C12: every listing returns the recipes in the reverse order of their
\* creation (ids are generated in the order of creation), also for recipes
\* created within the same tick of created_at.
C12_NewestFirst ==
  \A rows \in Listings :
    \A i, j \in 1..Len(rows) : i < j => rows[i].id > rows[j].id

\* C13: logout answers success and leaves the session without a user id,
\* whatever it held; a session without a user id has no current user, gets
\* the redirect to login from recipe_new, recipe_edit and recipe_delete with
\* both tables unchanged, and gets a user id only by a login or a register.
C13_LogoutEndsSession ==
  [][ \A s \in Sessions :
        /\ (Acts(s) /\ logout(s))
             => /\ resp'[s].outcome = "ok"
                /\ session'[s] = NoUser
                /\ current_user(s)' = None
        /\ session[s] = NoUser
             => /\ current_user(s) = None
                /\ session'[s] # NoUser
                     => \/ pc[s] = "register_insert"
                        \/ \E u \in UsernameInputs, p \in PasswordInputs :
                             login(s, "POST", u, p)
                /\ \A m \in Methods, id \in RecipeIds, f \in Forms :
                     ( /\ Acts(s)
                       /\ (recipe_new(s, m, f) \/ recipe_edit(s, m, id, f)
                             \/ recipe_delete(s, id)) )
                     => /\ resp'[s].outcome = "LoginRedirect"
                        /\ users' = users /\ recipes' = recipes
    ]_vars

\* a logout while a user and a recipe exist leaves every session anonymous
C13_Witness ==
  \E s \in Sessions :
    /\ pc[s] = "teardown"
    /\ resp[s].msg = "You have been logged out."
    /\ users # {} /\ recipes # {}
    /\ \A t \in Sessions : session[t] = NoUser

\* the five mutable fields of a recipe row, or of a form
Fields(r) ==
  <<r.title, r.description, r.ingredients, r.instructions, r.prep_time>>

\* C14: recipe_edit that reaches its UPDATE carries the stripped values of
\* the submitted form; the UPDATE of an existing recipe sets its five fields
\* to these values (an empty one blanks the field), keeps its id, user_id
\* and created_at, keeps every other row and the users table; no step
\* changes the user_id of a row.
C14_UpdateReplacesAll ==
  [][ /\ \A s \in Sessions :
           /\ \A id \in RecipeIds, f \in Forms :
                ( /\ Acts(s)
                  /\ recipe_edit(s, "POST", id, f)
                  /\ pc'[s] = "recipe_edit_update" )
                => /\ local'[s].recipe_id = id
                   /\ Fields(local'[s].form)
                        = <<strip(f.title), strip(f.description),
                            strip(f.ingredients), strip(f.instructions),
                            strip(f.prep_time)>>
           /\ (Acts(s) /\ pc[s] = "recipe_edit_update")
                => /\ resp'[s].outcome = "ok"
                   /\ users' = users
                   /\ {r.id : r \in recipes'} = {r.id : r \in recipes}
                   /\ \A r \in recipes :
                        IF r.id = local[s].recipe_id
                        THEN \E q \in recipes' :
                               /\ q.id = r.id
                               /\ q.user_id = r.user_id
                               /\ q.created_at = r.created_at
                               /\ Fields(q) = Fields(local[s].form)
                        ELSE r \in recipes'
      /\ \A r \in recipes, q \in recipes' :
           q.id = r.id => q.user_id = r.user_id
    ]_vars

\* an update has blanked the description and the instructions of a recipe
C14_Witness ==
  \E s \in Sessions :
    /\ pc[s] = "teardown"
    /\ resp[s].msg = "Recipe updated."
    /\ Cardinality(recipes) = 2
    /\ \A r \in recipes : r.description = <<>> /\ r.ingredients = <<"g">>
    /\ \E r \in recipes : r.user_id # session[s]

\* C15: the five fields of a recipe row are at all times the stripped
\* values of one submitted form, never a mix of two; an UPDATE makes them
\* the values of the request that runs it, also when another request for
\* the same recipe has passed its checks and not yet written, so the
\* request that writes last decides the row.
C15_LastWriterWins ==
  /\ [](\A r \in recipes : \E f \in Forms : Fields(r) = Fields(StripForm(f)))
  /\ [][ \A s, t \in Sessions :
           ( /\ s # t
             /\ Acts(s)
             /\ pc[s] = "recipe_edit_update"
             /\ pc[t] = "recipe_edit_update"
             /\ local[t].recipe_id = local[s].recipe_id )
           => /\ pc'[t] = "recipe_edit_update"
              /\ \A q \in recipes' :
                   q.id = local[s].recipe_id
                   => Fields(q) = Fields(local[s].form)
        ]_vars

\* one of two interleaved updates has written, the other, with another
\* form, is still to write
C15_Witness ==
  \E s, t \in Sessions :
    /\ pc[s] = "teardown"
    /\ resp[s].msg = "Recipe updated."
    /\ pc[t] = "recipe_edit_update"
    /\ session[s] = session[t]
    /\ \E r \in recipes :
         /\ r.id = local[t].recipe_id
         /\ Fields(r) # Fields(local[t].form)

\* C16: an UPDATE of recipe_edit answers success only if the row of its
\* recipe exists when it is applied (otherwise the answer is NotFound), and
\* it never brings back a row that was deleted.
C16_UpdateNeedsRow ==
  [][ \A s \in Sessions :
        (Acts(s) /\ pc[s] = "recipe_edit_update")
        => /\ {r.id : r \in recipes'} \subseteq {r.id : r \in recipes}
           /\ IF \E r \in recipes : r.id = local[s].recipe_id
              THEN resp'[s].outcome = "ok"
              ELSE resp'[s].outcome = "NotFound"
    ]_vars

\* C17: a refused login and a refused register (an empty username or
\* password, or a taken username) leave the users table and every session
\* as they were.
C17_RefusalChangesNothing ==
  [][ \A s \in Sessions :
        ( /\ Acts(s)
          /\ pc[s] = "idle"
          /\ \E u \in UsernameInputs, p \in PasswordInputs :
               \/ /\ login(s, "POST", u, p)
                  /\ \A row \in users :
                       row.username = strip(u)
                       => ~check_password_hash(row.password_hash, p)
               \/ /\ register(s, "POST", u, p)
                  /\ \/ strip(u) = <<>>
                     \/ p = <<>>
                     \/ \E row \in users : row.username = strip(u) )
        => /\ resp'[s].outcome \in {"AuthError", "ValidationError", "ConflictError"}
           /\ pc'[s] = "teardown"
           /\ users' = users
           /\ session' = session
    ]_vars

\* a client logged in as one user was refused the registration of the
\* other user's name
C17_Witness ==
  \E s \in Sessions :
    /\ pc[s] = "teardown"
    /\ resp[s].outcome = "ConflictError"
    /\ Cardinality(users) = 2
    /\ session[s] # NoUser

\* C18: a session that holds a user id holds the id of a user row, and
\* current_user returns the id and username of that row; current_user
\* returns None exactly for the sessions that hold no user id.
C18_SessionUserExists ==
  \A s \in Sessions :
    /\ session[s] # NoUser
         => \E u \in users :
              /\ u.id = session[s]
              /\ current_user(s) = [id |-> u.id, username |-> u.username]
    /\ session[s] = NoUser <=> current_user(s) = None

C18_Witness ==
  /\ \A s \in Sessions : session[s] # NoUser /\ pc[s] = "idle"
  /\ \E s, t \in Sessions : session[s] # session[t]
  /\ recipes # {}

\* C19: a request has at most one connection open at any time, none
\* before its first statement, and none once it is torn down, whatever its
\* outcome; a request that ran a statement holds its connection until then.
C19_OneConnection ==
  \A s \in Sessions :
    /\ conn[s] <= 1
    /\ pc[s] = "idle" => conn[s] = 0
    /\ pc[s] \in {"register_insert", "recipe_edit_update",
                  "recipe_delete_delete"} => conn[s] = 1
    /\ pc[s] = "teardown"
         => (conn[s] = 1 <=> \E i \in 1..Len(resp[s].steps) :
                               resp[s].steps[i] # "check_password_hash")

\* a request that failed in its insert still holds its connection, the
\* request that won the race has been torn down
C19_Witness ==
  \E s, t \in Sessions :
    /\ pc[s] = "teardown"
    /\ resp[s].outcome = "ServerError"
    /\ conn[s] = 1
    /\ pc[t] = "idle" /\ conn[t] = 0 /\ session[t] # NoUser

====
